---- MODULE Spec2Model ----
(***************************************************************************)
(* A model of the Scan container of nmutils (nmutils/core/Scan.py) and of  *)
(* its contrast_stepscan loader (nmutils/core/contrast_stepscan.py).       *)
(*                                                                         *)
(* A contrast_stepscan object is modelled by its instance attributes:      *)
(* positions, data and the loading attributes _prepareData sets.  The      *)
(* plotting labels (positionDimLabels, dataTitles, dataDimLabels,          *)
(* dataAxes) carry no behaviour and are left out.  The HDF5 file is the    *)
(* environment: what a call reads from it is drawn from bounded sets.      *)
(*                                                                         *)
(* Array elements are exact rationals <<n, d>> (d > 0, lowest terms); an   *)
(* array is a record of its dtype ("int" or "float") and its frames, and   *)
(* a frame is the tuple of the elements of one scan position.              *)
(***************************************************************************)
EXTENDS Integers, Sequences, FiniteSets, TLC

VARIABLES
    default_opts,   \* the class attribute contrast_stepscan.default_opts
    attrs,          \* the loading attributes of self, set by _prepareData
    positions,      \* self.positions: None or the sequence of <<x, y>> rows
    data,           \* self.data: dataset name -> array
    other,          \* a second Scan object: the last subset()'s result
    files,          \* the files export has written: path -> contents
    call            \* the last call: its operation, outcome and return value

vars == <<default_opts, attrs, positions, data, other, files, call>>

(***************************************************************************)
(* Bounds of the model.                                                    *)
(***************************************************************************)
MaxPos == 3         \* longest array of positions or frames a file holds
MaxDatasets == 2    \* datasets a Scan holds at most
MaxKwargs == 2      \* keyword arguments one addData call is given at most
MaxDims == 3        \* dimensions of the longest shape _calcChunkSize is given
MaxLines == 3       \* lines of the longest raster scan
MaxPoints == 4      \* points of the longest line of a raster scan

(***************************************************************************)
(* Python values: a value carries its exact type, as type(val) gives it.   *)
(***************************************************************************)
PyInt(n) == [t |-> "int", i |-> n, s |-> ""]
PyBool(b) == [t |-> "bool", i |-> IF b THEN 1 ELSE 0, s |-> ""]
PyStr(str) == [t |-> "str", i |-> 0, s |-> str]
PyList(repr) == [t |-> "list", i |-> 0, s |-> repr]
PyNone == [t |-> "NoneType", i |-> 0, s |-> "None"]

TypeOf(val) == val.t

\* the 'type' field of an option: a single type, or a list of choices
SingleType(t) == [kind |-> "type", t |-> t, choices |-> {}]
Choice(S) == [kind |-> "choice", t |-> "list", choices |-> S]

DataSources ==
    {"merlin", "xspress3", "pilatus", "pilatus1m",
     "counter1", "counter2", "counter3", "waxs"}

\* contrast_stepscan.default_opts as the class statement builds it
DefaultOpts ==
    [scanNr |-> [value |-> PyInt(0), type |-> SingleType("int")],
     path |-> [value |-> PyNone, type |-> SingleType("str")],
     dataSource |-> [value |-> PyStr("merlin"),
                     type |-> Choice({PyStr(d) : d \in DataSources})],
     xMotor |-> [value |-> PyStr("sx"), type |-> SingleType("str")],
     yMotor |-> [value |-> PyStr("sy"), type |-> SingleType("str")],
     xrfChannel |-> [value |-> PyInt(3), type |-> SingleType("int")],
     xrdCropping |-> [value |-> PyList("[]"), type |-> SingleType("list")],
     xrdBinning |-> [value |-> PyInt(1), type |-> SingleType("int")],
     normalize_by_I0 |-> [value |-> PyBool(FALSE), type |-> SingleType("bool")],
     nominalPositions |-> [value |-> PyBool(FALSE), type |-> SingleType("bool")],
     waxsPath |-> [value |-> PyStr("../../process/radial_integration/<sampledir>"),
                   type |-> SingleType("str")],
     burstSum |-> [value |-> PyBool(FALSE), type |-> SingleType("bool")],
     nMaxPositions |-> [value |-> PyInt(0), type |-> SingleType("int")]]

OptKeys == DOMAIN DefaultOpts

(***************************************************************************)
(* Keyword arguments of addData: a function from option names to values.   *)
(* The candidates hold accepted values, a value of the wrong exact type    *)
(* (True for the int option scanNr), a value that is not on the menu and   *)
(* an option name that does not exist.                                     *)
(***************************************************************************)
KwValues ==
    [path |-> {PyStr("/d"), PyStr("/d/000001.h5")},
     scanNr |-> {PyInt(1), PyBool(TRUE)},
     nMaxPositions |-> {PyInt(1)},
     dataSource |-> {PyStr("counter1"), PyStr("eiger")},
     bogus |-> {PyInt(1)}]

KwKeys == DOMAIN KwValues

KwargsOver(S) ==
    {kw \in [S -> UNION {KwValues[k] : k \in S}] :
        \A k \in S : kw[k] \in KwValues[k]}

Kwargs ==
    UNION {KwargsOver(S) : S \in {T \in SUBSET KwKeys : Cardinality(T) <= MaxKwargs}}

(***************************************************************************)
(* Scan._updateOpts                                                        *)
(***************************************************************************)
\* isinstance(val, type) in the place of the exact type: a bool is an int
WrongTypeIsinstance(opt, val) ==
    /\ opt.type.kind = "type"
    /\ ~(TypeOf(val) = opt.type.t \/ (TypeOf(val) = "bool" /\ opt.type.t = "int"))

\* the test of line 126: a single declared type and a value of another type
WrongType(opt, val) == opt.type.kind = "type" /\ ~(TypeOf(val) = opt.type.t)

\* the test of line 129: a list of choices and a value that is not in it
NotOnMenu(opt, val) == opt.type.kind = "choice" /\ val \notin opt.type.choices

BadKwarg(opts, kwargs, key) ==
    IF key \in DOMAIN opts
        THEN WrongType(opts[key], kwargs[key]) \/ NotOnMenu(opts[key], kwargs[key])
        ELSE TRUE

\* the options with the 'value' fields of the given keys replaced
UpdatedOpts(opts, kwargs) ==
    [k \in DOMAIN opts |->
        IF k \in DOMAIN kwargs THEN [opts[k] EXCEPT !.value = kwargs[k]]
                               ELSE opts[k]]

\* _updateOpts(opts, **kwargs): the exception it raises ("none": it returns)
\* and the options it returns
UpdateOpts(opts, kwargs) ==
    IF \E key \in DOMAIN kwargs : BadKwarg(opts, kwargs, key)
        THEN [exc |-> "Exception", opts |-> opts]
        ELSE [exc |-> "none", opts |-> UpdatedOpts(opts, kwargs)]

(***************************************************************************)
(* contrast_stepscan._prepareData                                          *)
(***************************************************************************)
\* cp.deepcopy(self.default_opts): a structure that shares nothing with the
\* class attribute.  shared tells whether the inner dictionaries, which
\* _updateOpts writes to (its own opts.copy() is shallow), are those of the
\* class attribute.
CopyDefaultsShallow(opts) == [opts |-> opts, shared |-> TRUE]

CopyDefaults(opts) == [opts |-> opts, shared |-> FALSE]

\* path.endswith('h5') and os.path.dirname(path), on the paths in use
EndsWithH5(path) == path \in {"/d/000001.h5"}

Dirname(path) == IF path = "/d/000001.h5" THEN "/d" ELSE path

\* os.path.join(path, '%06u.h5' % scanNr): the folder and the scan number
FileName(path, scanNr) ==
    [dir |-> IF EndsWithH5(path) THEN Dirname(path) ELSE path, nr |-> scanNr]

NoAttr == [t |-> "unset", i |-> 0, s |-> ""]

\* the object before any _prepareData: the attributes do not exist
NoAttrs ==
    [dataSource |-> NoAttr, fileName |-> [dir |-> "", nr |-> -1],
     xMotor |-> NoAttr, yMotor |-> NoAttr, xrfChannel |-> NoAttr,
     xrdCropping |-> NoAttr, xrdBinning |-> NoAttr, normalize_by_I0 |-> NoAttr,
     nominalPositions |-> NoAttr, waxsPath |-> NoAttr, burstSum |-> NoAttr,
     nMaxPositions |-> NoAttr]

\* lines 98-113: the attributes parsed from the options
ParsedAttrs(opts) ==
    [dataSource |-> opts.dataSource.value,
     fileName |-> FileName(opts.path.value.s, opts.scanNr.value.i),
     xMotor |-> opts.xMotor.value,
     yMotor |-> opts.yMotor.value,
     xrfChannel |-> PyInt(opts.xrfChannel.value.i),
     xrdCropping |-> opts.xrdCropping.value,
     xrdBinning |-> PyInt(opts.xrdBinning.value.i),
     normalize_by_I0 |-> opts.normalize_by_I0.value,
     nominalPositions |-> PyBool(opts.nominalPositions.value.i # 0),
     waxsPath |-> opts.waxsPath.value,
     burstSum |-> opts.burstSum.value,
     nMaxPositions |-> opts.nMaxPositions.value]

\* _prepareData(**kwargs) on an object with the attributes old, the class
\* attribute defaults and a file that opens or does not: the exception raised,
\* the attributes and the class attribute afterwards.
PrepareData(defaults, old, kwargs, fileOpens) ==
    LET copy == CopyDefaults(defaults)
        upd == UpdateOpts(copy.opts, kwargs)
        cls == IF copy.shared THEN upd.opts ELSE defaults
    IN  IF upd.exc # "none"
            THEN [exc |-> upd.exc, attrs |-> old, defaults |-> cls]
        ELSE IF TypeOf(upd.opts.path.value) # "str"
            \* None has no endswith
            THEN [exc |-> "AttributeError", attrs |-> old, defaults |-> cls]
        ELSE IF ~fileOpens
            THEN [exc |-> "NoDataException", attrs |-> ParsedAttrs(upd.opts),
                  defaults |-> cls]
        ELSE [exc |-> "none", attrs |-> ParsedAttrs(upd.opts), defaults |-> cls]

(***************************************************************************)
(* Exact arithmetic on array elements                                      *)
(***************************************************************************)
RECURSIVE GCD(_, _)
GCD(a, b) == IF b = 0 THEN a ELSE GCD(b, a % b)

Abs(n) == IF n < 0 THEN -n ELSE n

Rat(n, d) == LET g == GCD(Abs(n), d) IN <<n \div g, d \div g>>

R(n) == <<n, 1>>

RatAdd(p, q) == Rat(p[1] * q[2] + q[1] * p[2], p[2] * q[2])

RatDivInt(p, k) == Rat(p[1], p[2] * k)

RECURSIVE RatSum(_)
RatSum(seq) == IF seq = <<>> THEN R(0) ELSE RatAdd(Head(seq), RatSum(Tail(seq)))

\* numpy's round(): to the nearest integer, a half to the even neighbour
RoundHalfEven(p) ==
    LET f == p[1] \div p[2]
        r == p[1] - f * p[2]
    IN  IF 2 * r < p[2] THEN R(f)
        ELSE IF 2 * r > p[2] THEN R(f + 1)
        ELSE IF f % 2 = 0 THEN R(f) ELSE R(f + 1)

RatNeg(p) == <<-p[1], p[2]>>

RatSub(p, q) == RatAdd(p, RatNeg(q))

RatMul(p, q) == Rat(p[1] * q[1], p[2] * q[2])

\* p / q for q # 0
RatDiv(p, q) ==
    IF q[1] > 0 THEN Rat(p[1] * q[2], p[2] * q[1])
                ELSE Rat(-(p[1] * q[2]), p[2] * (-q[1]))

RatLess(p, q) == p[1] * q[2] < q[1] * p[2]

\* math.ceil
Ceil(p) == -((-p[1]) \div p[2])

\* the smallest and the largest of a non-empty sequence of integers
Min(seq) == CHOOSE v \in {seq[i] : i \in DOMAIN seq} : \A i \in DOMAIN seq : v <= seq[i]

Max(seq) == CHOOSE v \in {seq[i] : i \in DOMAIN seq} : \A i \in DOMAIN seq : v >= seq[i]

Reversed(seq) == [i \in 1..Len(seq) |-> seq[Len(seq) + 1 - i]]

(***************************************************************************)
(* Arrays                                                                  *)
(***************************************************************************)
Array(dtype, frames) == [dtype |-> dtype, frames |-> frames]

\* an array of positions: None, or its rows and its number of dimensions
\* (numpy's ndim: 2 for N x 2, 1 for the array of an empty list)
PosNone == [none |-> TRUE, rows |-> <<>>, ndim |-> 0]

PosArray(rows) == [none |-> FALSE, rows |-> rows, ndim |-> 2]

\* np.array(rows) of a list of rows
PosFromList(rows) ==
    [none |-> FALSE, rows |-> rows, ndim |-> IF rows = <<>> THEN 1 ELSE 2]

nDatasets == Cardinality(DOMAIN data)

nPositions == Len(positions.rows)

\* a function with one more (or one replaced) key
Store(f, key, val) ==
    [k \in DOMAIN f \cup {key} |-> IF k = key THEN val ELSE f[k]]

NoData == [k \in {} |-> Array("int", <<>>)]

\* the mean over the frames of element j
ElementMean(frames, j) ==
    RatDivInt(RatSum([i \in 1..Len(frames) |-> frames[i][j]]), Len(frames))

\* np.mean(array, axis=0): one frame of float means
MeanFrame(frames) == [j \in 1..Len(frames[1]) |-> ElementMean(frames, j)]

\* np.pad(..., mode='edge'): the last frame repeated
PadEdge(arr, missing) ==
    Array(arr.dtype, arr.frames \o [i \in 1..missing |-> arr.frames[Len(arr.frames)]])

\* np.pad(data, ((0, missing), (0, 0), ...), mode='mean'): missing frames
\* appended, each the mean frame of the given ones, in the array's dtype
PadMean(arr, missing) ==
    LET m == MeanFrame(arr.frames)
        fill == IF arr.dtype = "int"
                    THEN [j \in 1..Len(m) |-> RoundHalfEven(m[j])]
                    ELSE m
    IN  Array(arr.dtype, arr.frames \o [i \in 1..missing |-> fill])

(***************************************************************************)
(* contrast_stepscan._readPositions and Scan.addData                       *)
(***************************************************************************)
\* what the file holds: filePos, the rows (x, y) of the two motor columns;
\* x[:nMaxPositions], y[:nMaxPositions] when nMaxPositions is not 0
ReadPositions(at, filePos) ==
    IF at.nMaxPositions.i # 0
        THEN PosArray(SubSeq(filePos, 1,
                 IF at.nMaxPositions.i < Len(filePos) THEN at.nMaxPositions.i
                                                      ELSE Len(filePos)))
        ELSE PosArray(filePos)

\* np.all(self.positions == new) for two N x 2 arrays: numpy broadcasts an
\* array of one row against the other array; two arrays whose row counts
\* differ otherwise do not compare (False, or ValueError in later numpy)
PositionsConsistent(stored, new) ==
    LET n == Len(stored.rows)
        m == Len(new.rows)
    IN  IF n = m THEN \A i \in 1..n : stored.rows[i] = new.rows[i]
        ELSE IF m = 1 THEN \A i \in 1..n : stored.rows[i] = new.rows[1]
        ELSE IF n = 1 THEN \A i \in 1..m : stored.rows[1] = new.rows[i]
        ELSE FALSE

\* 'data%u' % self.nDatasets when no name is given ("": None)
ResolvedName(name) == IF name = "" THEN "data" \o ToString(nDatasets) ELSE name

\* lines 187-189: the positions are read into self.positions only while
\* the Scan holds no dataset
StoredPositionsAlways(read) == read

StoredPositions(read) == IF nDatasets = 0 THEN read ELSE positions

\* lines 192-195: the Scan holds data and the name is one of its keys
AlreadyLoadedNever(nm) == FALSE

AlreadyLoaded(nm) == nDatasets # 0 /\ nm \in DOMAIN data

\* data[-n:] instead of data[:n]
TruncatedTail(arr, n) ==
    Array(arr.dtype, SubSeq(arr.frames, Len(arr.frames) - n + 1, Len(arr.frames)))

\* data[:n]
Truncated(arr, n) == Array(arr.dtype, SubSeq(arr.frames, 1, n))

\* no padding of missing frames
FittedNoPad(arr, n) == IF Len(arr.frames) > n THEN Truncated(arr, n) ELSE arr

\* lines 216-227: the array padded or cut to n frames
Fitted(arr, n) ==
    IF Len(arr.frames) < n THEN PadMean(arr, n - Len(arr.frames))
    ELSE IF Len(arr.frames) > n THEN Truncated(arr, n)
    ELSE arr

\* lines 219 and 226: what addData prints about k frames for n positions
NoPrint == [kind |-> "none", count |-> 0]

Printed(k, n) ==
    IF k < n THEN [kind |-> "missing", count |-> n - k]
    ELSE IF k > n THEN [kind |-> "excess", count |-> k - n]
    ELSE NoPrint

\* addData(name, **kwargs) with the file opening or not, holding the rows
\* filePos, and _readData returning fileData.arr or raising fileData.exc:
\* the exception raised, what was printed and the object afterwards
AddDataResult(name, kwargs, fileOpens, filePos, fileData) ==
    LET nm == ResolvedName(name)
        prep == PrepareData(default_opts, attrs, kwargs, fileOpens)
        read == ReadPositions(prep.attrs, filePos)
        pos == StoredPositions(read)
        k == Len(fileData.arr.frames)
        n == Len(pos.rows)
        done(exc, p, d, pr) ==
            [exc |-> exc, positions |-> p, data |-> d, printed |-> pr,
             attrs |-> prep.attrs, defaults |-> prep.defaults]
    IN  IF prep.exc # "none" THEN done(prep.exc, positions, data, NoPrint)
        ELSE IF AlreadyLoaded(nm)
            THEN done("ValueError", positions, data, NoPrint)
        ELSE IF nDatasets # 0 /\ ~PositionsConsistent(positions, read)
            THEN done("ValueError", positions, data, NoPrint)
        ELSE IF fileData.exc # "none" THEN done(fileData.exc, pos, data, NoPrint)
        ELSE IF k = 0 /\ n > 0
            \* np.pad cannot extend an empty axis with mode='mean'
            THEN done("ValueError", pos, data, Printed(k, n))
        ELSE done("none", pos, Store(data, nm, Fitted(fileData.arr, n)),
                  Printed(k, n))

NoRet == <<>>

NoKwargs == [k \in {} |-> PyNone]

Called(op, name, kwargs, exc, ret, printed) ==
    [op |-> op, name |-> name, kwargs |-> kwargs, exc |-> exc, ret |-> ret,
     printed |-> printed]

AddData(name, kwargs, fileOpens, filePos, fileData) ==
    \E res \in {AddDataResult(name, kwargs, fileOpens, filePos, fileData)} :
        /\ Cardinality(DOMAIN res.data) <= MaxDatasets
        /\ default_opts' = res.defaults
        /\ attrs' = res.attrs
        /\ positions' = res.positions
        /\ data' = res.data
        /\ call' = Called("addData", name, kwargs, res.exc, NoRet, res.printed)
        /\ UNCHANGED <<other, files>>

(***************************************************************************)
(* contrast_stepscan._readPositions and _readData on the datasets of a     *)
(* file:  file.opens, the motor arrays file.x and file.y, the detector      *)
(* frames file.frames (entry/measurement/<dataSource>/000000, ...), the    *)
(* counter array file.counter and the WAXS file file.waxs, each of them    *)
(* there or missing.  normalize_by_I0 keeps its default, False.            *)
(***************************************************************************)
\* a dataset that the file does not hold, and one that it holds
Missing == [missing |-> TRUE, values |-> <<>>]

Held(values) == [missing |-> FALSE, values |-> values]

\* lines 128-147 before the cut to nMaxPositions is applied to the rows:
\* hf.get() gives None for a missing motor; x[:nMaxPositions] of
\* np.array(None) raises IndexError, and without nMaxPositions the motor
\* without a len() is replaced by zeros of the shape of the other
ReadMotors(at, file) ==
    IF at.nMaxPositions.i # 0 /\ (file.x.missing \/ file.y.missing)
        THEN [exc |-> "IndexError", rows |-> <<>>]
    ELSE IF file.x.missing /\ file.y.missing
        THEN [exc |-> "none", rows |-> <<<<0, 0>>>>]
    ELSE IF file.y.missing
        THEN [exc |-> "none",
              rows |-> [i \in 1..Len(file.x.values) |-> <<file.x.values[i], 0>>]]
    ELSE IF file.x.missing
        THEN [exc |-> "none",
              rows |-> [i \in 1..Len(file.y.values) |-> <<0, file.y.values[i]>>]]
    ELSE [exc |-> "none",
          rows |-> [i \in 1..Len(file.x.values) |->
                      <<file.x.values[i], file.y.values[i]>>]]

\* a lookup that lets h5py's KeyError through
SafeGetKeyError(dataset) == IF dataset.missing THEN "KeyError" ELSE "none"

\* Scan._safe_get_dataset, _safe_get_array: NoDataException for KeyError
SafeGet(dataset) == IF dataset.missing THEN "NoDataException" ELSE "none"

\* the frames 000000 .. of the detector as datasets: missing from the end of
\* those the file holds on
FrameDataset(file, im) ==
    IF im < Len(file.frames) THEN Held(<<file.frames[im + 1]>>) ELSE Missing

\* _readData(name) with self.positions = pos: the exception raised or the
\* array returned
ReadData(at, file, pos) ==
    LET raised(exc) == [exc |-> exc, arr |-> Array("int", <<>>)]
        n == Len(pos.rows)
        count == IF at.nMaxPositions.i # 0 /\ at.nMaxPositions.i < n
                     THEN at.nMaxPositions.i ELSE n
    IN  IF at.dataSource.s \in {"merlin", "pilatus", "pilatus1m", "xspress3"}
            THEN IF \E im \in 0..(count - 1) : SafeGet(FrameDataset(file, im)) # "none"
                     THEN raised(SafeGet(Missing))
                     ELSE [exc |-> "none",
                           arr |-> Array("int", SubSeq(file.frames, 1, count))]
        ELSE IF at.dataSource.s \in {"counter1", "counter2", "counter3"}
            THEN IF SafeGet(file.counter) # "none" THEN raised(SafeGet(file.counter))
                 ELSE [exc |-> "none", arr |-> Array("float", file.counter.values)]
        ELSE IF at.dataSource.s = "waxs"
            THEN IF ~file.waxs.opens THEN raised("OSError")
                 ELSE IF SafeGet(file.waxs.q) # "none" THEN raised(SafeGet(file.waxs.q))
                 ELSE IF SafeGet(file.waxs.I) # "none" THEN raised(SafeGet(file.waxs.I))
                 ELSE [exc |-> "none", arr |-> Array("float", file.waxs.I.values)]
        ELSE raised("RuntimeError")

\* addData(name, **kwargs) on the file: _readPositions runs after the name
\* was looked at on a Scan that holds data, and before everything else on
\* an empty one; an exception of it leaves the Scan as _prepareData left it
LoadResult(name, kwargs, file) ==
    LET prep == PrepareData(default_opts, attrs, kwargs, file.opens)
        motors == ReadMotors(prep.attrs, file)
        pos == StoredPositions(ReadPositions(prep.attrs, motors.rows))
    IN  IF prep.exc = "none" /\ ~AlreadyLoaded(ResolvedName(name))
           /\ motors.exc # "none"
            THEN [exc |-> motors.exc, positions |-> positions, data |-> data,
                  printed |-> NoPrint, attrs |-> prep.attrs,
                  defaults |-> prep.defaults]
            ELSE AddDataResult(name, kwargs, file.opens, motors.rows,
                               ReadData(prep.attrs, file, pos))

\* self.addData(name, **kwargs) on the file
AddDataFromFile(name, kwargs, file) ==
    LET res == LoadResult(name, kwargs, file)
    IN  /\ Cardinality(DOMAIN res.data) <= MaxDatasets
        /\ default_opts' = res.defaults
        /\ attrs' = res.attrs
        /\ positions' = res.positions
        /\ data' = res.data
        /\ call' = Called("addData", name, kwargs, res.exc, NoRet, res.printed)
        /\ UNCHANGED <<other, files>>

(***************************************************************************)
(* Scan.removeData and Scan.meanData                                       *)
(***************************************************************************)
\* self.data.pop(name) that removes every dataset
DropAll(f, key) == [k \in {} |-> f[k]]

Drop(f, key) == [k \in DOMAIN f \ {key} |-> f[k]]

RemoveData(name) ==
    /\ IF name \in DOMAIN data
          THEN /\ data' = Drop(data, name)
               /\ call' = Called("removeData", name, NoKwargs, "none", NoRet, NoPrint)
          ELSE /\ data' = data
               /\ call' = Called("removeData", name, NoKwargs, "ValueError", NoRet,
                                 NoPrint)
    /\ UNCHANGED <<default_opts, attrs, positions, other, files>>

\* np.mean(array, axis=0): nan for every element of an array of no frames
\* (the frame shape of an empty array is not modelled: one nan)
NaN == <<0, 0>>

\* np.sum(array, axis=0) in the place of np.mean
SumOf(arr) ==
    [j \in 1..Len(arr.frames[1]) |->
        RatSum([i \in 1..Len(arr.frames) |-> arr.frames[i][j]])]

MeanOf(arr) == IF arr.frames = <<>> THEN <<NaN>> ELSE MeanFrame(arr.frames)

\* meanData(name), "" for no name
MeanData(name) ==
    /\ IF name = "" /\ nDatasets # 1
          THEN call' = Called("meanData", name, NoKwargs, "ValueError", NoRet, NoPrint)
          ELSE LET nm == IF name = "" THEN CHOOSE k \in DOMAIN data : TRUE ELSE name
               IN  IF nm \in DOMAIN data
                      THEN call' = Called("meanData", name, NoKwargs, "none",
                                          MeanOf(data[nm]), NoPrint)
                      ELSE call' = Called("meanData", name, NoKwargs, "KeyError",
                                          NoRet, NoPrint)
    /\ UNCHANGED <<default_opts, attrs, positions, data, other, files>>

(***************************************************************************)
(* Scan.subset and Scan.merge                                              *)
(***************************************************************************)
\* a range test that leaves the bounds themselves out
InRangeExclusive(row, posRange) ==
    \A dim \in 1..Len(row) :
        posRange[1][dim] < row[dim] /\ row[dim] < posRange[2][dim]

\* lines 304-309: the position lies within posRange = <<lower, upper>>
InRange(row, posRange) ==
    \A dim \in 1..Len(row) :
        ~(row[dim] < posRange[1][dim] \/ row[dim] > posRange[2][dim])

RECURSIVE SelectIdx(_, _, _)
\* the indices i..Len(rows) of the rows within posRange, in order
SelectIdx(rows, posRange, i) ==
    IF i > Len(rows) THEN <<>>
    ELSE IF InRange(rows[i], posRange)
        THEN <<i>> \o SelectIdx(rows, posRange, i + 1)
        ELSE SelectIdx(rows, posRange, i + 1)

\* sum((row - rangeCenter)**2) with rangeCenter = mean(posRange, axis=0),
\* times 4 to stay within the integers
Dist2(row, posRange) ==
    LET sq(dim) == (2 * row[dim] - posRange[1][dim] - posRange[2][dim])
                   * (2 * row[dim] - posRange[1][dim] - posRange[2][dim])
    IN  RatSum([dim \in 1..Len(row) |-> R(sq(dim))])[1]

\* an argmin that takes the last index of the smallest distance
ArgMinLast(rows, posRange) ==
    CHOOSE i \in 1..Len(rows) :
        /\ \A j \in 1..Len(rows) : Dist2(rows[i], posRange) <= Dist2(rows[j], posRange)
        /\ \A j \in (i + 1)..Len(rows) : Dist2(rows[j], posRange) > Dist2(rows[i], posRange)

\* np.argmin: the first index of the smallest distance
ArgMin(rows, posRange) ==
    CHOOSE i \in 1..Len(rows) :
        /\ \A j \in 1..Len(rows) : Dist2(rows[i], posRange) <= Dist2(rows[j], posRange)
        /\ \A j \in 1..(i - 1) : Dist2(rows[j], posRange) > Dist2(rows[i], posRange)

\* np.array(list of the frames taken): float64 for an empty list
Taken(arr, idx) ==
    Array(IF idx = <<>> THEN "float" ELSE arr.dtype,
          [n \in 1..Len(idx) |-> arr.frames[idx[n]]])

NewScan == [positions |-> PosNone, data |-> NoData, attrs |-> NoAttrs]

\* subset(posRange, closest): the exception raised and the Scan returned
SubsetResult(posRange, closest) ==
    LET inside == SelectIdx(positions.rows, posRange, 1)
        idx == IF inside = <<>> /\ closest
                   THEN <<ArgMin(positions.rows, posRange)>>
                   ELSE inside
    IN  IF positions.none
            \* range(None)
            THEN [exc |-> "TypeError", new |-> NewScan]
        ELSE IF inside = <<>> /\ closest /\ positions.rows = <<>>
            \* argmin of an empty array
            THEN [exc |-> "ValueError", new |-> NewScan]
        ELSE [exc |-> "none",
              new |-> [positions |-> PosFromList([n \in 1..Len(idx) |->
                                                     positions.rows[idx[n]]]),
                       data |-> [k \in DOMAIN data |-> Taken(data[k], idx)],
                       attrs |-> attrs]]

\* other = self.subset(posRange, closest)
Subset(posRange, closest) ==
    LET res == SubsetResult(posRange, closest)
    IN  /\ other' = IF res.exc = "none" THEN res.new ELSE other
        /\ call' = Called("subset", "", [closest |-> PyBool(closest)], res.exc,
                           NoRet, NoPrint)
        /\ UNCHANGED <<default_opts, attrs, positions, data, files>>

\* np.concatenate((a, b), axis=0) of two arrays of frames
Concatenated(a, b) ==
    Array(IF a.dtype = "int" /\ b.dtype = "int" THEN "int" ELSE "float",
          a.frames \o b.frames)

\* np.concatenate of the positions raises for None and for arrays whose
\* numbers of dimensions differ
PositionsConcatenate(a, b) == ~a.none /\ ~b.none /\ a.ndim = b.ndim

\* self.merge(other).  Every frame of a specification has the same shape, so
\* the concatenation of a dataset cannot fail once that of the positions
\* succeeded.
Merge ==
    /\ Len(positions.rows) + Len(other.positions.rows) <= MaxPos
    /\ IF DOMAIN data # DOMAIN other.data
          THEN /\ call' = Called("merge", "", NoKwargs, "AssertionError", NoRet, NoPrint)
               /\ UNCHANGED <<positions, data>>
       ELSE IF ~PositionsConcatenate(positions, other.positions)
          THEN /\ call' = Called("merge", "", NoKwargs, "ValueError", NoRet, NoPrint)
               /\ UNCHANGED <<positions, data>>
       ELSE /\ positions' = [positions EXCEPT
                                !.rows = positions.rows \o other.positions.rows]
            /\ data' = [k \in DOMAIN data |-> Concatenated(data[k], other.data[k])]
            /\ call' = Called("merge", "", NoKwargs, "none", NoRet, NoPrint)
    /\ UNCHANGED <<default_opts, attrs, other, files>>

(***************************************************************************)
(* Scan.interpolatedMap                                                    *)
(***************************************************************************)
\* np.sqrt of a square number; the other numbers have no rational root and
\* the specifications call interpolatedMap on no scan that needs one
IsSquare(n) == \E r \in 0..n : r * r = n

Sqrt(n) == CHOOSE r \in 0..n : r * r = n

\* both x and y vary over the scan: the branch of lines 357-365
NeedsRoot ==
    /\ \E i, j \in 1..nPositions : positions.rows[i][1] # positions.rows[j][1]
    /\ \E i, j \in 1..nPositions : positions.rows[i][2] # positions.rows[j][2]

Slice(start, stop, step) == [start |-> start, stop |-> stop, step |-> step]

\* lines 345-365: the slices np.mgrid is given for y and for x
MgridSlices(oversampling, equal) ==
    LET xcol == [i \in 1..nPositions |-> positions.rows[i][1]]
        ycol == [i \in 1..nPositions |-> positions.rows[i][2]]
        xMin == R(Min(xcol))
        xMax == R(Max(xcol))
        yMin == R(Min(ycol))
        yMax == R(Max(ycol))
        o == R(oversampling)
        half(p) == RatDivInt(p, 2)
    IN  IF yMax = yMin
            THEN LET stepsize == RatDiv(RatDivInt(RatSub(xMax, xMin), nPositions), o)
                     margin == half(RatMul(o, stepsize))
                     wide == half(RatMul(RatMul(stepsize, o), R(5)))
                 IN  [y |-> Slice(RatSub(yMin, wide), RatAdd(yMin, wide), stepsize),
                      x |-> Slice(RatAdd(xMax, margin), RatSub(xMin, margin),
                                  RatNeg(stepsize))]
        ELSE IF xMax = xMin
            THEN LET stepsize == RatDiv(RatDivInt(RatSub(yMax, yMin), nPositions), o)
                     margin == half(RatMul(o, stepsize))
                     wide == half(RatMul(RatMul(stepsize, o), R(5)))
                 IN  [y |-> Slice(RatAdd(yMax, margin), RatSub(yMin, margin),
                                  RatNeg(stepsize)),
                      x |-> Slice(RatSub(xMin, wide), RatAdd(xMin, wide), stepsize)]
        ELSE LET xs == RatDiv(RatDivInt(RatSub(xMax, xMin), Sqrt(nPositions)), o)
                 ys == RatDiv(RatDivInt(RatSub(yMax, yMin), Sqrt(nPositions)), o)
                 xstepsize == IF equal /\ RatLess(ys, xs) THEN ys ELSE xs
                 ystepsize == IF equal THEN xstepsize ELSE ys
                 xmargin == half(RatMul(o, xstepsize))
                 ymargin == half(RatMul(o, ystepsize))
             IN  [y |-> Slice(RatAdd(yMax, ymargin), RatSub(yMin, ymargin),
                              RatNeg(ystepsize)),
                  x |-> Slice(RatAdd(xMax, xmargin), RatSub(xMin, xmargin),
                              RatNeg(xstepsize))]

\* one axis of np.mgrid[start:stop:step]: ceil((stop - start) / step) values
\* from start on, step apart
Mgrid(s) ==
    [k \in 1..Ceil(RatDiv(RatSub(s.stop, s.start), s.step)) |->
        RatAdd(s.start, RatMul(R(k - 1), s.step))]

\* the squared distance of the scan position row to the point (gx, gy), as
\* its numerator over the denominator (gx[2] * gy[2])^2 that the distances of
\* all positions to this point share
Dist2To(gx, gy, row) ==
    LET dx == (gx[1] - row[1] * gx[2]) * gy[2]
        dy == (gy[1] - row[2] * gy[2]) * gx[2]
    IN  dx * dx + dy * dy

\* griddata(method='nearest'): the index of a scan position nearest to the
\* point; which of several equally near ones is the library's choice, here
\* the first or the last
NearestTo(gx, gy, tie) ==
    LET near == {i \in 1..nPositions :
                    \A j \in 1..nPositions :
                        Dist2To(gx, gy, positions.rows[i])
                            <= Dist2To(gx, gy, positions.rows[j])}
    IN  IF tie = "first" THEN CHOOSE i \in near : \A j \in near : i <= j
                         ELSE CHOOSE i \in near : \A j \in near : i >= j

FlipLR(m) == [i \in 1..Len(m) |-> Reversed(m[i])]

FlipUD(m) == Reversed(m)

\* lines 368-383: the arrays turned from the lower-right origin to origin
Turned(m, origin) ==
    IF origin = "ll" THEN FlipLR(m)
    ELSE IF origin = "ur" THEN FlipUD(m)
    ELSE IF origin = "ul" THEN FlipLR(FlipUD(m))
    ELSE m

\* interpolatedMap(values, oversampling, origin, equal=equal): the exception
\* raised and the arrays <<x, y, z>> returned
InterpolatedMapResult(values, oversampling, origin, equal, tie) ==
    IF positions.none
        \* nDimensions is None
        THEN [exc |-> "AssertionError", ret |-> NoRet]
    ELSE IF positions.ndim # 2
        \* positions.shape[1] of a one-dimensional array
        THEN [exc |-> "IndexError", ret |-> NoRet]
    ELSE IF nPositions = 0
        \* np.min of an empty array
        THEN [exc |-> "ValueError", ret |-> NoRet]
    ELSE LET s == MgridSlices(oversampling, equal)
         IN  IF s.y.step = R(0) \/ s.x.step = R(0)
                 \* np.mgrid: 0.0 / 0.0 is nan, and math.ceil(nan) raises
                 THEN [exc |-> "ValueError", ret |-> NoRet]
             ELSE LET ys == Mgrid(s.y)
                      xs == Mgrid(s.x)
                      y == [i \in 1..Len(ys) |-> [j \in 1..Len(xs) |-> ys[i]]]
                      x == [i \in 1..Len(ys) |-> [j \in 1..Len(xs) |-> xs[j]]]
                      z == [i \in 1..Len(ys) |-> [j \in 1..Len(xs) |->
                                values[NearestTo(xs[j], ys[i], tie)]]]
                  IN  [exc |-> "none",
                       ret |-> <<Turned(x, origin), Turned(y, origin),
                                 Turned(z, origin)>>]

\* x, y, z = self.interpolatedMap(self.data[name], oversampling, origin)
InterpolatedMap(name, oversampling, origin, equal, tie) ==
    LET \* the values of a dataset, or np.zeros(nPositions) as export passes
        values == IF name \in DOMAIN data THEN data[name].frames
                  ELSE [i \in 1..nPositions |-> <<R(0)>>]
        res == InterpolatedMapResult(values, oversampling, origin, equal, tie)
    IN  /\ NeedsRoot => IsSquare(nPositions)
        /\ call' = Called("interpolatedMap", name,
                          [oversampling |-> PyInt(oversampling),
                           origin |-> PyStr(origin), equal |-> PyBool(equal)],
                          res.exc, res.ret, NoPrint)
        /\ UNCHANGED <<default_opts, attrs, positions, data, other, files>>

(***************************************************************************)
(* Scan._calcChunkSize                                                     *)
(***************************************************************************)
\* 1 << 22
maxChunkSz == 4194304

\* the return values: None, or a tuple of chunk dimensions
NoChunk == [none |-> TRUE, chunk |-> <<>>]

Chunk(dims) == [none |-> FALSE, chunk |-> dims]

RECURSIVE Product(_)
Product(seq) == IF seq = <<>> THEN 1 ELSE Head(seq) * Product(Tail(seq))

\* a limit test that refuses an array of exactly maxChunkSz bytes
FitsChunkStrict(nbytes) == nbytes < maxChunkSz

\* line 474: the bytes of one dimension need no chunking
FitsChunk(nbytes) == nbytes <= maxChunkSz

\* a chunk length rounded up
ChunkLengthUp(dsize) == (maxChunkSz + dsize - 1) \div dsize

\* line 478: int(maxChunkSz/dsize)
ChunkLength(dsize) == maxChunkSz \div dsize

RECURSIVE calcChunkSize(_, _)
calcChunkSize(shape, dsize) ==
    LET dims == Len(shape)
    IN  IF dims = 0 THEN NoChunk
        ELSE IF dims = 1
            THEN IF FitsChunk(dsize * shape[1]) THEN NoChunk
                 ELSE Chunk(<<ChunkLength(dsize)>>)
        ELSE LET last == calcChunkSize(<<shape[dims]>>, dsize)
             IN  IF ~last.none
                     THEN Chunk([i \in 1..(dims - 1) |-> 1] \o last.chunk)
                 ELSE LET dsz == shape[dims] * dsize
                          rest == calcChunkSize(SubSeq(shape, 1, dims - 1), dsz)
                      IN  IF ~rest.none
                              THEN Chunk(rest.chunk \o <<shape[dims]>>)
                          ELSE IF dsize * Product(shape) > maxChunkSz
                              THEN Chunk(shape)
                          ELSE NoChunk

\* chunk = self._calcChunkSize(shape, dsize)
CalcChunkSize(shape, dsize) ==
    /\ call' = Called("_calcChunkSize", "", [shape |-> shape, dsize |-> dsize],
                      "none", calcChunkSize(shape, dsize), NoPrint)
    /\ UNCHANGED <<default_opts, attrs, positions, data, other, files>>

(***************************************************************************)
(* Scan._shapeFromPositions2D                                              *)
(***************************************************************************)
\* np.abs(np.diff(seq))
AbsDiff(seq) == [i \in 1..(Len(seq) - 1) |-> Abs(seq[i + 1] - seq[i])]

\* the k-th smallest element of a sequence of integers
Kth(seq, k) ==
    CHOOSE v \in {seq[i] : i \in DOMAIN seq} :
        /\ Cardinality({i \in DOMAIN seq : seq[i] < v}) < k
        /\ Cardinality({i \in DOMAIN seq : seq[i] <= v}) >= k

\* twice np.median(seq) of a non-empty sequence
TwiceMedian(seq) ==
    LET n == Len(seq)
    IN  IF n % 2 = 1 THEN 2 * Kth(seq, (n + 1) \div 2)
        ELSE Kth(seq, n \div 2) + Kth(seq, n \div 2 + 1)

\* np.median(adx) > np.median(ady): False when the medians are nan, those of
\* empty sequences
MedianGreater(adx, ady) ==
    adx # <<>> /\ ady # <<>> /\ TwiceMedian(adx) > TwiceMedian(ady)

\* the elements of a set of integers in ascending order
Ascending(S) ==
    [n \in 1..Cardinality(S) |-> CHOOSE i \in S : Cardinality({j \in S : j <= i}) = n]

\* line 521: the (0-based) indices of the steps longer than half the extent
IdxBreaks(adiff, total) ==
    Ascending({k \in 0..(Len(adiff) - 1) : 2 * adiff[k + 1] > total})

\* line 522: np.diff(np.insert(idx_breaks, 0, -1))
BreakDistances(idx) ==
    [n \in 1..Len(idx) |-> idx[n] - (IF n = 1 THEN -1 ELSE idx[n - 1])]

RECURSIVE SumInts(_)
SumInts(seq) == IF seq = <<>> THEN 0 ELSE Head(seq) + SumInts(Tail(seq))

\* line 523: np.mean(dim, dtype=np.int) of a non-empty dim, the sum divided
\* by the count and cut to an integer
IntMean(seq) == SumInts(seq) \div Len(seq)

\* _shapeFromPositions2D(x, y): the exception raised, else the shape
\* <<slow_axis_dim, fast_axis_dim>> and the label returned
shapeFromPositions2D(x, y) ==
    LET adx == AbsDiff(x)
        ady == AbsDiff(y)
        xfast == MedianGreater(adx, ady)
        fast_axis == IF xfast THEN x ELSE y
        fast_axis_adiff == IF xfast THEN adx ELSE ady
        fast_axis_label == IF xfast THEN "x" ELSE "y"
        fast_axis_total_diff == Max(fast_axis) - Min(fast_axis)
        dim == BreakDistances(IdxBreaks(fast_axis_adiff, fast_axis_total_diff))
        fast_axis_dim == IntMean(dim)
        slow_axis_dim == Len(fast_axis) \div fast_axis_dim
    IN  IF fast_axis = <<>>
            \* np.max of an empty array
            THEN [exc |-> "ValueError", shape |-> <<>>, label |-> ""]
        ELSE IF dim = <<>>
            \* the mean of no distances is nan, which is no integer
            THEN [exc |-> "ValueError", shape |-> <<>>, label |-> ""]
        ELSE [exc |-> "none", shape |-> <<slow_axis_dim, fast_axis_dim>>,
              label |-> fast_axis_label]

\* the positions of a raster scan of lines lines of points points: the fast
\* axis starts every line at from and moves by step, the slow axis moves by
\* pitch from line to line
Raster(lines, points, fast, from, step, pitch) ==
    LET f == [i \in 1..(lines * points) |-> from + step * ((i - 1) % points)]
        s == [i \in 1..(lines * points) |-> pitch * ((i - 1) \div points)]
    IN  [x |-> IF fast = "x" THEN f ELSE s, y |-> IF fast = "x" THEN s ELSE f,
         lines |-> lines, points |-> points, fast |-> fast]

\* shape, label = self._shapeFromPositions2D(x, y) on the positions of a
\* raster scan
ShapeFromPositions2D(raster) ==
    LET res == shapeFromPositions2D(raster.x, raster.y)
    IN  /\ call' = Called("_shapeFromPositions2D", "", raster, res.exc,
                          [shape |-> res.shape, label |-> res.label], NoPrint)
        /\ UNCHANGED <<default_opts, attrs, positions, data, other, files>>

(***************************************************************************)
(* Scan.export                                                             *)
(***************************************************************************)
\* a file of /entry0 and /entry0/data only: what an export leaves behind
\* that fails after h5py.File created the file
CreatedFile(method) ==
    [complete |-> FALSE, method |-> method, shape |-> <<>>,
     dsets |-> [k \in {} |-> [shape |-> <<>>, chunk |-> NoChunk]]]

\* the mode 'w' in place of 'w-': an existing file is opened and truncated
OpenTruncates(filepath) == FALSE

\* line 409: h5py.File(filepath, 'w-') fails when the file exists
OpenRefuses(filepath) == filepath \in DOMAIN files

\* data.shape[1:] of a dataset and the itemsize of int64 and float64
FrameShape(arr) == IF arr.frames = <<>> THEN <<>> ELSE <<Len(arr.frames[1])>>

ItemSize(arr) == 8

\* lines 440-459: the datasets written for the grid shape
WrittenDatasets(method, shape) ==
    [k \in DOMAIN data |->
        LET shp == IF method = "none" THEN <<Len(data[k].frames)>> \o FrameShape(data[k])
                   ELSE shape \o FrameShape(data[k])
        IN  [shape |-> shp, chunk |-> calcChunkSize(shp, ItemSize(data[k]))]]

CompleteFile(method, shape) ==
    [complete |-> TRUE, method |-> method, shape |-> shape,
     dsets |-> WrittenDatasets(method, shape)]

\* the exception leaves the files as they were, leaves the file just created
\* behind, or there is none and the file is written
ExportFailed(exc) == [exc |-> exc, files |-> files]

ExportPartial(filepath, method, exc) ==
    [exc |-> exc, files |-> Store(files, filepath, CreatedFile(method))]

ExportWritten(filepath, method, shape) ==
    [exc |-> "none", files |-> Store(files, filepath, CompleteFile(method, shape))]

\* lines 423-430: the shape found by _shapeFromPositions2D
ExportReshaped(filepath, method, found) ==
    IF found.exc # "none" THEN ExportPartial(filepath, method, found.exc)
    ELSE IF Product(found.shape) # nPositions
        THEN ExportPartial(filepath, method, "Exception")
    ELSE ExportWritten(filepath, method, found.shape)

\* lines 431-435: the shape of the interpolated map
ExportResampled(filepath, method, map) ==
    IF map.exc # "none" THEN ExportPartial(filepath, method, map.exc)
    ELSE ExportWritten(filepath, method, <<Len(map.ret[1]), Len(map.ret[1][1])>>)

\* export(filepath, method, oversampling=oversampling, equal=equal): the
\* exception raised and the files afterwards
ExportResult(filepath, method, oversampling, equal, tie) ==
    IF positions.none THEN ExportFailed("AssertionError")
    ELSE IF positions.ndim # 2 THEN ExportFailed("IndexError")
    ELSE IF method \notin {"reshape", "resample", "none"}
        THEN ExportFailed("AssertionError")
    ELSE IF OpenRefuses(filepath) THEN ExportFailed("OSError")
    ELSE IF method = "reshape"
        THEN ExportReshaped(filepath, method,
                 shapeFromPositions2D([i \in 1..nPositions |-> positions.rows[i][1]],
                                      [i \in 1..nPositions |-> positions.rows[i][2]]))
    ELSE IF method = "resample"
        THEN ExportResampled(filepath, method,
                 InterpolatedMapResult([i \in 1..nPositions |-> <<R(0)>>],
                                       oversampling, "lr", equal, tie))
    ELSE ExportWritten(filepath, method, <<nPositions>>)

Exported(filepath, method, res) ==
    /\ files' = res.files
    /\ call' = Called("export", filepath, [method |-> PyStr(method)], res.exc,
                      NoRet, NoPrint)
    /\ UNCHANGED <<default_opts, attrs, positions, data, other>>

\* self.export(filepath, method, oversampling=oversampling, equal=equal)
Export(filepath, method, oversampling, equal, tie) ==
    /\ (method = "resample" /\ NeedsRoot) => IsSquare(nPositions)
    /\ Exported(filepath, method, ExportResult(filepath, method, oversampling, equal, tie))

(***************************************************************************)
(* XrdWidget.updateMap and XrdWidget.updateImage.  self.scan is the Scan   *)
(* of the model, its dataset '2d' holds one matrix of pixels per position; *)
(* a mask is None or the set of the <<row, column>> it selects; the mask   *)
(* widgets, the index box, the interpolation box and selectionMode are     *)
(* read when the method runs.                                              *)
(***************************************************************************)
NoMask == [none |-> TRUE, selected |-> {}]

Mask(selected) == [none |-> FALSE, selected |-> selected]

\* (mask is None) or (not np.sum(mask))
Cleared(mask) == mask.none \/ mask.selected = {}

Pixels(frame) == {<<i, j>> : i \in 1..Len(frame), j \in 1..Len(frame[1])}

RECURSIVE SumOver(_, _)
SumOver(frame, pixels) ==
    IF pixels = {} THEN R(0)
    ELSE LET p == CHOOSE q \in pixels : TRUE
         IN  RatAdd(frame[p[1]][p[2]], SumOver(frame, pixels \ {p}))

MeanOver(frame, pixels) == RatDivInt(SumOver(frame, pixels), Cardinality(pixels))

\* an average that takes every pixel whatever the mask selects
PixelAverageAll(frame, mask) == MeanOver(frame, Pixels(frame))

\* lines 99-105: the value of one position
PixelAverage(frame, mask) ==
    IF Cleared(mask) THEN MeanOver(frame, Pixels(frame))
    ELSE MeanOver(frame, mask.selected)

\* lines 99-105: one value for every position
Averages(mask) ==
    [i \in 1..Len(data["2d"].frames) |-> PixelAverage(data["2d"].frames[i], mask)]

\* lines 107-110: the map z of the averages given to the map widget, or the
\* exception of interpolatedMap raised again
MapShown(average, map) ==
    IF map.exc # "none"
        THEN [exc |-> map.exc, average |-> average, shown |-> FALSE, image |-> <<>>]
        ELSE [exc |-> "none", average |-> average, shown |-> TRUE,
              image |-> map.ret[3]]

\* updateMap(): the exception raised, the averages computed and the map z
\* given to the map widget
UpdateMapResult(mask, sampling, tie) ==
    IF "2d" \notin DOMAIN data
        THEN [exc |-> "KeyError", average |-> <<>>, shown |-> FALSE, image |-> <<>>]
    ELSE IF \E i \in 1..Len(data["2d"].frames) :
                ~Cleared(mask) /\ ~(mask.selected \subseteq Pixels(data["2d"].frames[i]))
        \* the mask selects a pixel that the frames do not have
        THEN [exc |-> "IndexError", average |-> <<>>, shown |-> FALSE, image |-> <<>>]
    ELSE MapShown(Averages(mask),
                  InterpolatedMapResult(Averages(mask), sampling, "ul", FALSE, tie))

MapUpdated(mask, res) ==
    /\ call' = Called("updateMap", "", [mask |-> mask], res.exc,
                      [average |-> res.average, shown |-> res.shown,
                       image |-> res.image], NoPrint)
    /\ UNCHANGED <<default_opts, attrs, positions, data, other, files>>

UpdateMap(mask, sampling, tie) ==
    /\ NeedsRoot => IsSquare(nPositions)
    /\ MapUpdated(mask, UpdateMapResult(mask, sampling, tie))

\* np.mean(frames, axis=0) of matrices: nan everywhere for no frames
MeanFrame2D(frames, shape) ==
    [i \in 1..shape[1] |-> [j \in 1..shape[2] |->
        IF frames = <<>> THEN NaN
        ELSE RatDivInt(RatSum([k \in 1..Len(frames) |-> frames[k][i][j]]),
                       Len(frames))]]

\* the squared distance of a scan position to the grid point (gx, gy)
RatDist2(gx, gy, row) ==
    LET dx == RatSub(gx, R(row[1]))
        dy == RatSub(gy, R(row[2]))
    IN  RatAdd(RatMul(dx, dx), RatMul(dy, dy))

\* lines 152-161: the (1-based) indices of the positions nearer than one
\* grid diagonal to a grid point that the map mask selects
MaskedPositions(x, y, mask) ==
    LET ex == RatSub(x[1][2], x[1][1])
        ey == RatSub(y[1][1], y[2][1])
        pointSpacing2 == RatAdd(RatMul(ex, ex), RatMul(ey, ey))
    IN  Ascending({i \in 1..nPositions :
                      \E c \in mask.selected :
                          RatLess(RatDist2(x[c[1]][c[2]], y[c[1]][c[2]],
                                           positions.rows[i]),
                                  pointSpacing2)})

NothingShown == [shown |-> FALSE, image |-> <<>>]

Shown(image) == [shown |-> TRUE, image |-> image]

\* data['2d'].shape[1:]
FrameShape2D(frames) == <<Len(frames[1]), Len(frames[1][1])>>

\* data['2d'][maskedPositions]
FramesAt(frames, idx) == [n \in 1..Len(idx) |-> frames[idx[n]]]

\* lines 150-166: the average frame of the positions under the map mask
RoiImage(frames, shape, mask, map) ==
    IF map.exc # "none" THEN NothingShown
    ELSE IF \E c \in mask.selected :
                c[1] > Len(map.ret[1]) \/ c[2] > Len(map.ret[1][1])
        \* the mask does not fit the grid
        THEN NothingShown
    ELSE Shown(MeanFrame2D(FramesAt(frames,
                                    MaskedPositions(map.ret[1], map.ret[2], mask)),
                           shape))

\* updateImage(): what is given to the image widget; every exception is
\* caught and only reported in the status line
UpdateImageResult(selectionMode, index, mask, sampling, tie) ==
    IF "2d" \notin DOMAIN data THEN NothingShown
    ELSE IF data["2d"].frames = <<>> THEN NothingShown
    ELSE IF Pixels(data["2d"].frames[1]) = {<<1, 1>>} THEN NothingShown
    ELSE IF selectionMode = "ind"
        THEN IF index < Len(data["2d"].frames)
                 THEN Shown(data["2d"].frames[index + 1])
                 ELSE NothingShown
    ELSE IF Cleared(mask)
        THEN Shown(MeanFrame2D(data["2d"].frames, FrameShape2D(data["2d"].frames)))
    ELSE RoiImage(data["2d"].frames, FrameShape2D(data["2d"].frames), mask,
                  InterpolatedMapResult([i \in 1..nPositions |-> R(0)], sampling,
                                        "ul", FALSE, tie))

UpdateImage(selectionMode, index, mask, sampling, tie) ==
    /\ NeedsRoot => IsSquare(nPositions)
    /\ call' = Called("updateImage", selectionMode,
                      [mask |-> mask, index |-> [none |-> FALSE, selected |-> {index}]],
                      "none", UpdateImageResult(selectionMode, index, mask, sampling, tie),
                      NoPrint)
    /\ UNCHANGED <<default_opts, attrs, positions, data, other, files>>

(***************************************************************************)
(* The environment: what the calls are given and what the file holds.      *)
(* Each specification draws the inputs of addData from sets that make the  *)
(* cases of its claims happen; all of them run the same operations.        *)
(***************************************************************************)
\* sequences over S of length 0..n
SeqsUpTo(S, n) == UNION {[1..k -> S] : k \in 0..n}

P0 == <<0, 0>>

P1 == <<1, 0>>

Points == {P0, P1}

\* frames of two elements
F0 == <<R(0), R(1)>>

F1 == <<R(1), R(2)>>

Frames == {F0, F1}

Read(arr) == [exc |-> "none", arr |-> arr]

ReadFails == [exc |-> "NoDataException", arr |-> Array("int", <<>>)]

\* the smallest accepted call: the folder of the data file
ValidKwargs == [path |-> PyStr("/d")]

UnknownKwargs == [bogus |-> PyInt(1)]

\* the file system export writes to: no file yet
NoFiles == [f \in {} |-> [complete |-> FALSE]]

Init ==
    /\ default_opts = DefaultOpts
    /\ attrs = NoAttrs
    /\ positions = PosNone
    /\ data = NoData
    /\ other = NewScan
    /\ files = NoFiles
    /\ call = Called("init", "", NoKwargs, "none", NoRet, NoPrint)

(***************************************************************************)
(* Spec: datasets added to and removed from one Scan, under several names  *)
(***************************************************************************)
NameArgs == {"", "a"}

DatasetNames == {"a"} \cup {"data" \o ToString(n) : n \in 0..MaxDatasets}

ScanKwargs == {ValidKwargs, UnknownKwargs}

ScanFilePositions == {<<P0>>, <<P0, P0>>, <<P0, P1>>, <<P0, P1, P0>>}

ScanFileData ==
    {Read(Array("int", fr)) : fr \in {<<>>, <<F0>>, <<F0, F1>>, <<F1, F1, F0>>}}
    \cup {ReadFails}

Next ==
    \/ \E name \in NameArgs, kwargs \in ScanKwargs,
          filePos \in ScanFilePositions, fileData \in ScanFileData :
            AddData(name, kwargs, TRUE, filePos, fileData)
    \/ \E name \in DatasetNames : RemoveData(name)
    \/ \E name \in NameArgs : MeanData(name)

Spec == Init /\ [][Next]_vars

(***************************************************************************)
(* SpecPad: one dataset, read from files of every length up to MaxPos      *)
(***************************************************************************)
\* one array of positions of every length: only the length decides the padding
FilePositions == {[i \in 1..k |-> P0] : k \in 0..MaxPos}

FileData ==
    {Read(Array(dtype, fr)) :
        dtype \in {"int", "float"}, fr \in SeqsUpTo(Frames, MaxPos)}

NextPad ==
    \/ \E filePos \in FilePositions, fileData \in FileData :
            AddData("a", ValidKwargs, TRUE, filePos, fileData)
    \/ RemoveData("a")
    \/ MeanData("")

SpecPad == Init /\ [][NextPad]_vars

(***************************************************************************)
(* SpecOpts: calls with every combination of keyword arguments             *)
(***************************************************************************)
NextOpts ==
    \/ \E kwargs \in Kwargs, fileOpens \in BOOLEAN :
            AddData("a", kwargs, fileOpens, <<P0, P1>>, Read(Array("int", <<F0, F1>>)))
    \/ RemoveData("a")

SpecOpts == Init /\ [][NextOpts]_vars

(***************************************************************************)
(* SpecMerge: two Scan objects, one a subset of the other, merged          *)
(***************************************************************************)
MergeNames == {"a", "b"}

\* ranges that hold one position, both, none (to the right of the scan) and
\* none (x within the scan, y above it, P0 and P1 as far from its centre)
Ranges == {<<P0, P0>>, <<P0, P1>>, <<<<2, 0>>, <<3, 0>>>>, <<<<0, 1>>, <<1, 2>>>>}

NextMerge ==
    \/ \E name \in MergeNames, fr \in {<<F0>>, <<F1, F0, F1>>} :
            AddData(name, ValidKwargs, TRUE, <<P0, P1>>, Read(Array("int", fr)))
    \/ \E name \in MergeNames : RemoveData(name)
    \/ \E posRange \in Ranges, closest \in BOOLEAN : Subset(posRange, closest)
    \/ Merge

SpecMerge == Init /\ [][NextMerge]_vars

(***************************************************************************)
(* SpecMap: scans of one point, of one line and of a 2 x 2 grid, regridded  *)
(***************************************************************************)
P01 == <<0, 1>>

P20 == <<2, 0>>

P21 == <<2, 1>>

\* one position, the same position twice, a line along x (out of order), a
\* line along y, and a grid of 2 x 2 positions, wider than high
MapFilePositions ==
    {<<P0>>, <<P1, P1>>, <<P0, P20, P1>>, <<P0, P01>>, <<P0, P20, P01, P21>>}

\* one frame for every position read, all different
MapFrames(n) == [i \in 1..n |-> <<R(i), R(0)>>]

Origins == {"lr", "ll", "ur", "ul"}

Oversamplings == {1, 2}

NextMap ==
    \/ \E filePos \in MapFilePositions :
            AddData("a", ValidKwargs, TRUE, filePos,
                    Read(Array("int", MapFrames(Len(filePos)))))
    \/ RemoveData("a")
    \/ \E oversampling \in Oversamplings, origin \in Origins,
          equal \in BOOLEAN, tie \in {"first", "last"} :
            InterpolatedMap("a", oversampling, origin, equal, tie)

SpecMap == Init /\ [][NextMap]_vars

(***************************************************************************)
(* SpecChunk: _calcChunkSize on shapes and item sizes around the limit     *)
(***************************************************************************)
Sides == {1, 2, 4}

\* item sizes: one byte, a float64, and sizes of which 4 MiB hold exactly
\* four, three and a bit, two, one and a bit, and one item
ItemSizes == {1, 8, 1048576, 1398101, 2097152, 3145728, 4194304}

\* shapes that cross the limit on a long axis with small items
LongShapes ==
    {<<4194304>>, <<4194305>>, <<2, 2097152>>, <<2, 2097153>>, <<2097153, 2>>,
     <<3, 1025, 1024>>, <<1025, 1, 4096>>}

ChunkInputs ==
    {[shape |-> shape, dsize |-> dsize] :
        shape \in SeqsUpTo(Sides, MaxDims), dsize \in ItemSizes}
    \cup {[shape |-> shape, dsize |-> dsize] :
            shape \in {<<3>>, <<3, 3>>, <<3, 4, 3>>}, dsize \in ItemSizes}
    \cup {[shape |-> shape, dsize |-> dsize] :
            shape \in LongShapes, dsize \in {1, 2, 8}}

NextChunk == \E in \in ChunkInputs : CalcChunkSize(in.shape, in.dsize)

SpecChunk == Init /\ [][NextChunk]_vars

(***************************************************************************)
(* SpecShape: _shapeFromPositions2D on the positions of raster scans       *)
(***************************************************************************)
\* rasters of 1..MaxLines lines of 2..MaxPoints points, either motor the fast
\* one, sweeping up or down by one or two units
Rasters ==
    {Raster(lines, points, fast, from, step, pitch) :
        lines \in 1..MaxLines, points \in 2..MaxPoints, fast \in {"x", "y"},
        from \in {0, 5}, step \in {-2, 1, 2}, pitch \in {-1, 1, 3}}

NextShape == \E raster \in Rasters : ShapeFromPositions2D(raster)

SpecShape == Init /\ [][NextShape]_vars

(***************************************************************************)
(* SpecExport: scans exported to two paths by every method                 *)
(***************************************************************************)
\* one position, a line of three, and grids of 2 x 2 and of 2 x 3 positions
ExportFilePositions ==
    {<<P0>>, <<P0, P1, P20>>, <<P0, P20, P01, P21>>,
     <<P0, P1, P20, P01, <<1, 1>>, P21>>}

FilePaths == {"/out/a.h5", "/out/b.h5"}

\* the three methods and one export does not know
Methods == {"reshape", "resample", "none", "nexus"}

NextExport ==
    \/ \E filePos \in ExportFilePositions :
            AddData("a", ValidKwargs, TRUE, filePos,
                    Read(Array("int", MapFrames(Len(filePos)))))
    \/ RemoveData("a")
    \/ \E filepath \in FilePaths, method \in Methods :
            Export(filepath, method, 1, TRUE, "first")

SpecExport == Init /\ [][NextExport]_vars

(***************************************************************************)
(* SpecLoad: datasets loaded from files with datasets missing              *)
(***************************************************************************)
\* a file of two positions that holds everything a load can ask for
WholeFile ==
    [opens |-> TRUE, x |-> Held(<<0, 1>>), y |-> Held(<<0, 0>>),
     frames |-> <<F0, F1>>, counter |-> Held(<<<<R(3)>>, <<R(4)>>>>),
     waxs |-> [opens |-> TRUE, q |-> Held(<<>>), I |-> Held(<<F1, F0>>)]]

\* the file missing, and the file without one motor, both motors, the last
\* detector frame, every detector frame, the counter, the WAXS file, q, I
LoadFiles ==
    {WholeFile,
     [WholeFile EXCEPT !.opens = FALSE],
     [WholeFile EXCEPT !.x = Missing],
     [WholeFile EXCEPT !.y = Missing],
     [WholeFile EXCEPT !.x = Missing, !.y = Missing],
     [WholeFile EXCEPT !.frames = <<F0>>],
     [WholeFile EXCEPT !.frames = <<>>],
     [WholeFile EXCEPT !.counter = Missing],
     [WholeFile EXCEPT !.waxs.opens = FALSE],
     [WholeFile EXCEPT !.waxs.q = Missing],
     [WholeFile EXCEPT !.waxs.I = Missing]}

\* loads of the detector frames (all, and of one position), of a counter
\* and of the WAXS data
LoadKwargs ==
    {ValidKwargs,
     [path |-> PyStr("/d"), nMaxPositions |-> PyInt(1)],
     [path |-> PyStr("/d"), dataSource |-> PyStr("counter1")],
     [path |-> PyStr("/d"), dataSource |-> PyStr("waxs")]}

NextLoad ==
    \/ \E name \in MergeNames, kwargs \in LoadKwargs, file \in LoadFiles :
            AddDataFromFile(name, kwargs, file)
    \/ \E name \in MergeNames : RemoveData(name)

SpecLoad == Init /\ [][NextLoad]_vars

(***************************************************************************)
(* SpecXrd: the XRD widget on scans of two and three positions             *)
(***************************************************************************)
\* frames of 2 x 2 pixels and of one pixel
G0 == <<<<R(0), R(1)>>, <<R(2), R(4)>>>>

G1 == <<<<R(8), R(0)>>, <<R(1), R(1)>>>>

G2 == <<<<R(3), R(3)>>, <<R(0), R(5)>>>>

OnePixel == <<<<R(7)>>>>

XrdFiles ==
    {[pos |-> <<P0, P1>>, frames |-> <<G0, G1>>],
     [pos |-> <<P0, P1, P20>>, frames |-> <<G1, G0, G2>>],
     [pos |-> <<P0, P01>>, frames |-> <<OnePixel, OnePixel>>]}

\* no mask, a cleared one, one pixel, a row, the diagonal
ImageMasks ==
    {NoMask, Mask({}), Mask({<<1, 2>>}), Mask({<<2, 1>>, <<2, 2>>}),
     Mask({<<1, 1>>, <<2, 2>>})}

\* no mask, a cleared one, the bottom-right and the top-left corner of the map
MapMasks == {NoMask, Mask({}), Mask({<<5, 3>>}), Mask({<<1, 1>>, <<2, 1>>})}

NextXrd ==
    \/ \E file \in XrdFiles :
            AddData("2d", ValidKwargs, TRUE, file.pos, Read(Array("int", file.frames)))
    \/ RemoveData("2d")
    \/ \E mask \in ImageMasks, tie \in {"first", "last"} : UpdateMap(mask, 1, tie)
    \/ \E selectionMode \in {"roi", "ind"}, index \in 0..(MaxPos - 1),
          mask \in MapMasks :
            \* setScan: indexBox.setMaximum(scan.nPositions - 1)
            /\ index < nPositions \/ index = 0
            /\ UpdateImage(selectionMode, index, mask, 1, "first")

SpecXrd == Init /\ [][NextXrd]_vars

(***************************************************************************)
(* The claims                                                              *)
(***************************************************************************)
\* the sum of the elements j of the frames, as a rational
ColumnSum(frames, j) == RatSum([i \in 1..Len(frames) |-> frames[i][j]])

\* v is the average of the elements j of the frames: v * k = sum
IsAverage(v, frames, j) ==
    LET sum == ColumnSum(frames, j)
    IN  v[1] * Len(frames) * sum[2] = sum[1] * v[2]

\* v is the integer nearest to that average, the even one of two nearest
IsRoundedAverage(v, frames, j) ==
    LET sum == ColumnSum(frames, j)
        twice == Abs(2 * (v[1] * Len(frames) * sum[2] - sum[1]))
    IN  /\ v[2] = 1
        /\ twice <= Len(frames) * sum[2]
        /\ twice = Len(frames) * sum[2] => v[1] % 2 = 0

\* C1: after any sequence of addData, removeData, merge and subset calls,
\* every dataset of a Scan (the Scan itself, and the Scan subset returned)
\* has exactly nPositions entries along its first axis.
C1_CoIndexed ==
    /\ \A k \in DOMAIN data : Len(data[k].frames) = Len(positions.rows)
    /\ \A k \in DOMAIN other.data :
          Len(other.data[k].frames) = Len(other.positions.rows)

\* a merge of two datasets with a subset succeeded
C1_Merged ==
    /\ call.op = "merge" /\ call.exc = "none"
    /\ nDatasets = 2 /\ Len(positions.rows) = 3

\* C2 as claimed: when _readData returns k frames, 0 < k < nPositions, the
\* stored dataset has nPositions frames, the first k are the returned frames
\* in order and every element of the others is the average of that element
\* over the k returned frames.
C2_PadsWithAverage ==
    \A filePos \in FilePositions, fileData \in FileData :
        LET res == AddDataResult("a", ValidKwargs, TRUE, filePos, fileData)
            read == fileData.arr.frames
            k == Len(read)
            n == Len(res.positions.rows)
        IN  (res.exc = "none" /\ 0 < k /\ k < n) =>
                LET stored == res.data["a"].frames
                IN  /\ Len(stored) = n
                    /\ \A i \in 1..k : stored[i] = read[i]
                    /\ \A i \in (k + 1)..n : \A j \in 1..Len(read[1]) :
                          IsAverage(stored[i][j], read, j)

\* C2 as amended: the same, and in a dataset of integer dtype the fill is
\* that average rounded to the nearest integer, a half to the even one.
C2_PadsWithRoundedAverage ==
    \A filePos \in FilePositions, fileData \in FileData :
        LET res == AddDataResult("a", ValidKwargs, TRUE, filePos, fileData)
            read == fileData.arr.frames
            k == Len(read)
            n == Len(res.positions.rows)
        IN  (res.exc = "none" /\ 0 < k /\ k < n) =>
                LET stored == res.data["a"].frames
                IN  /\ Len(stored) = n
                    /\ res.data["a"].dtype = fileData.arr.dtype
                    /\ \A i \in 1..k : stored[i] = read[i]
                    /\ \A i \in (k + 1)..n : \A j \in 1..Len(read[1]) :
                          IF fileData.arr.dtype = "int"
                              THEN IsRoundedAverage(stored[i][j], read, j)
                              ELSE IsAverage(stored[i][j], read, j)

\* two integer frames were read for three positions: the third frame holds
\* the averages 1/2 and 3/2 rounded to 0 and 2
C2_Padded ==
    /\ call.op = "addData" /\ call.exc = "none"
    /\ call.printed = [kind |-> "missing", count |-> 1]
    /\ "a" \in DOMAIN data
    /\ data["a"] = Array("int", <<F0, F1, <<R(0), R(2)>>>>)

\* C3: when _readData returns more than nPositions frames, the stored
\* dataset is exactly the first nPositions of them, in their order.
C3_TruncatesExcess ==
    \A filePos \in FilePositions, fileData \in FileData :
        LET res == AddDataResult("a", ValidKwargs, TRUE, filePos, fileData)
            read == fileData.arr.frames
            n == Len(res.positions.rows)
        IN  (res.exc = "none" /\ Len(read) > n) =>
                /\ Len(res.data["a"].frames) = n
                /\ \A i \in 1..n : res.data["a"].frames[i] = read[i]
                /\ res.data["a"].dtype = fileData.arr.dtype

\* three frames were read for two positions
C3_Truncated ==
    /\ call.op = "addData" /\ call.exc = "none"
    /\ call.printed = [kind |-> "excess", count |-> 1]
    /\ Len(positions.rows) = 2
    /\ "a" \in DOMAIN data
    /\ data["a"].frames = <<F0, F1>>

\* C4: addData stores the positions it read exactly when the Scan holds no
\* dataset: a call changes positions only then, a successful call on an empty
\* Scan leaves the positions of the file (cut to nMaxPositions when that is
\* given), and a successful call on a Scan that holds data leaves positions
\* and every dataset stored before unchanged.
C4_PositionsStoredOnlyWhenEmpty ==
    \A name \in NameArgs, kwargs \in ScanKwargs, fileOpens \in BOOLEAN,
       filePos \in ScanFilePositions, fileData \in ScanFileData :
        LET res == AddDataResult(name, kwargs, fileOpens, filePos, fileData)
            nmax == res.attrs.nMaxPositions.i
            expected == IF nmax # 0 /\ nmax < Len(filePos)
                            THEN SubSeq(filePos, 1, nmax) ELSE filePos
        IN  /\ res.positions # positions => nDatasets = 0
            /\ (res.exc = "none" /\ nDatasets = 0) =>
                    res.positions = PosArray(expected)
            /\ (res.exc = "none" /\ nDatasets # 0) =>
                    /\ res.positions = positions
                    /\ \A k \in DOMAIN data :
                          k \in DOMAIN res.data /\ res.data[k] = data[k]

\* a second dataset was added to a Scan that held one
C4_SecondAdded ==
    /\ call.op = "addData" /\ call.exc = "none"
    /\ nDatasets = 2
    /\ Len(positions.rows) = 2

\* C5 as claimed: on a Scan that holds data, addData with a name that is a
\* key of data raises ValueError and leaves data and positions as they were.
C5_TakenNameRaisesValueError ==
    \A name \in NameArgs, kwargs \in ScanKwargs,
       filePos \in ScanFilePositions, fileData \in ScanFileData :
        LET res == AddDataResult(name, kwargs, TRUE, filePos, fileData)
        IN  (nDatasets >= 1 /\ ResolvedName(name) \in DOMAIN data) =>
                /\ res.exc = "ValueError"
                /\ res.data = data
                /\ res.positions = positions

\* C5 as amended: it raises ValueError unless _prepareData raised before the
\* name is looked at, and then the exception is that of _prepareData; data and
\* positions are as they were in either case.
C5_TakenNameRaisesAfterPrepare ==
    \A name \in NameArgs, kwargs \in ScanKwargs, fileOpens \in BOOLEAN,
       filePos \in ScanFilePositions, fileData \in ScanFileData :
        LET res == AddDataResult(name, kwargs, fileOpens, filePos, fileData)
            prep == PrepareData(default_opts, attrs, kwargs, fileOpens)
        IN  (nDatasets >= 1 /\ ResolvedName(name) \in DOMAIN data) =>
                /\ res.exc = IF prep.exc = "none" THEN "ValueError" ELSE prep.exc
                /\ prep.exc \in {"none", "Exception", "AttributeError",
                                 "NoDataException"}
                /\ res.data = data
                /\ res.positions = positions

\* an accepted call gave a name the Scan holds and raised ValueError
C5_TakenNameRefused ==
    /\ call.op = "addData" /\ call.exc = "ValueError"
    /\ call.kwargs = ValidKwargs
    /\ nDatasets >= 1
    /\ ResolvedName(call.name) \in DOMAIN data

\* C6: on a Scan that holds data, an accepted addData call whose file holds
\* positions that differ from the stored ones, in an element or in their
\* number, raises ValueError and leaves data and positions as they were.
C6_InconsistentPositionsRaise ==
    \A name \in NameArgs, filePos \in ScanFilePositions,
       fileData \in ScanFileData :
        LET res == AddDataResult(name, ValidKwargs, TRUE, filePos, fileData)
        IN  (nDatasets >= 1 /\ filePos # positions.rows) =>
                /\ res.exc = "ValueError"
                /\ res.data = data
                /\ res.positions = positions

\* the attributes _prepareData copies from the options as they are
PlainAttrs ==
    {"dataSource", "xMotor", "yMotor", "xrfChannel", "xrdCropping", "xrdBinning",
     "normalize_by_I0", "nominalPositions", "waxsPath", "burstSum",
     "nMaxPositions"}

\* the value of an option in a call: the keyword argument, else the default
\* of the class statement
Given(kwargs, key) ==
    IF key \in DOMAIN kwargs THEN kwargs[key] ELSE DefaultOpts[key].value

\* C7: loading options are not kept between addData calls.  default_opts is
\* never modified; after every call whose _prepareData parsed the options,
\* each loading attribute is the call's keyword argument or else the class
\* default, whatever earlier calls were given; and a successful call read
\* the two positions of the file cut to its own nMaxPositions only.
C7_OptionsNotKept ==
    /\ default_opts = DefaultOpts
    /\ (call.op = "addData" /\ call.exc \notin {"Exception", "AttributeError"}) =>
          /\ \A key \in PlainAttrs : attrs[key] = Given(call.kwargs, key)
          /\ attrs.fileName.nr = Given(call.kwargs, "scanNr").i
    /\ (call.op = "addData" /\ call.exc = "none") =>
          Len(positions.rows) =
              IF "nMaxPositions" \in DOMAIN call.kwargs THEN 1 ELSE 2

\* one position is stored, so an earlier call was given nMaxPositions = 1; the
\* last call was not, and ran with the default 0
C7_LaterCallFromDefaults ==
    /\ call.op = "addData" /\ call.exc = "ValueError"
    /\ "nMaxPositions" \notin DOMAIN call.kwargs
    /\ attrs.nMaxPositions = PyInt(0)
    /\ Len(positions.rows) = 1

\* C8: _updateOpts raises Exception for a key that is not an option, for a
\* value whose type is not exactly the single declared type and for a value
\* that is not among the declared choices; otherwise it returns the options
\* with the 'value' fields of the given keys, and nothing else, replaced.
C8_UpdateOptsChecks ==
    \A kwargs \in Kwargs :
        LET r == UpdateOpts(default_opts, kwargs)
            rejected ==
                \E key \in DOMAIN kwargs :
                    \/ key \notin DOMAIN default_opts
                    \/ /\ default_opts[key].type.kind = "type"
                       /\ kwargs[key].t # default_opts[key].type.t
                    \/ /\ default_opts[key].type.kind = "choice"
                       /\ kwargs[key] \notin default_opts[key].type.choices
        IN  IF rejected
                THEN r.exc = "Exception"
                ELSE /\ r.exc = "none"
                     /\ DOMAIN r.opts = DOMAIN default_opts
                     /\ \A key \in DOMAIN default_opts :
                           /\ r.opts[key].type = default_opts[key].type
                           /\ r.opts[key].value =
                                 IF key \in DOMAIN kwargs
                                     THEN kwargs[key]
                                     ELSE default_opts[key].value

\* addData(scanNr=True) was refused: bool is not exactly int
C8_BoolRefusedForInt ==
    /\ call.op = "addData" /\ call.exc = "Exception"
    /\ DOMAIN call.kwargs = {"scanNr"}
    /\ call.kwargs["scanNr"] = PyBool(TRUE)

\* C9: removeData(name) removes exactly the dataset name and leaves every
\* other dataset and positions unchanged when name exists; otherwise it
\* raises ValueError and leaves data and positions unchanged.
C9_RemoveData ==
    [][call'.op = "removeData" =>
        /\ positions' = positions
        /\ IF call'.name \in DOMAIN data
              THEN /\ call'.exc = "none"
                   /\ DOMAIN data' = DOMAIN data \ {call'.name}
                   /\ \A k \in DOMAIN data' : data'[k] = data[k]
              ELSE /\ call'.exc = "ValueError"
                   /\ data' = data]_vars

\* one of two datasets was removed
C9_Removed ==
    /\ call.op = "removeData" /\ call.exc = "none"
    /\ nDatasets = 1
    /\ call.name \notin DOMAIN data

\* C10: meanData never modifies the Scan; called without a name it returns
\* the average over all positions of the only dataset when the Scan holds
\* exactly one dataset, and raises ValueError otherwise.
C10_MeanData ==
    [][call'.op = "meanData" =>
        /\ UNCHANGED <<default_opts, attrs, positions, data, other, files>>
        /\ call'.name = "" =>
              IF nDatasets = 1
                  THEN LET arr == data[CHOOSE k \in DOMAIN data : TRUE]
                       IN  /\ call'.exc = "none"
                           /\ arr.frames # <<>> =>
                                 /\ Len(call'.ret) = Len(arr.frames[1])
                                 /\ \A j \in 1..Len(call'.ret) :
                                       IsAverage(call'.ret[j], arr.frames, j)
                  ELSE call'.exc = "ValueError"]_vars

\* the average of the frames [0, 1] and [1, 2] was returned
C10_Averaged ==
    /\ call.op = "meanData" /\ call.name = "" /\ call.exc = "none"
    /\ nDatasets = 1
    /\ call.ret = <<<<1, 2>>, <<3, 2>>>>

\* the indices of the positions within posRange, bounds included
Within(posRange) ==
    {i \in 1..Len(positions.rows) :
        \A d \in 1..Len(positions.rows[i]) :
            /\ posRange[1][d] <= positions.rows[i][d]
            /\ positions.rows[i][d] <= posRange[2][d]}

\* the n-th smallest index of the set S
Nth(S, n) == CHOOSE i \in S : Cardinality({j \in S : j <= i}) = n

\* the Scan new holds exactly the positions of the indices S, in their order
\* in the original, and of every dataset of the original their entries
HoldsExactly(new, S) ==
    /\ DOMAIN new.data = DOMAIN data
    /\ Len(new.positions.rows) = Cardinality(S)
    /\ \A k \in DOMAIN data : Len(new.data[k].frames) = Cardinality(S)
    /\ \A n \in 1..Cardinality(S) :
          /\ new.positions.rows[n] = positions.rows[Nth(S, n)]
          /\ \A k \in DOMAIN data :
                new.data[k].frames[n] = data[k].frames[Nth(S, n)]

\* C11: subset(posRange) of a Scan that holds positions returns a Scan with
\* the dataset names of the original, whose positions are exactly the
\* original positions within posRange (bounds included) in their original
\* order, and whose i-th entry of every dataset is the original entry of the
\* i-th position selected.
C11_SubsetSelectsRange ==
    \A posRange \in Ranges :
        LET res == SubsetResult(posRange, FALSE)
        IN  ~positions.none =>
                /\ res.exc = "none"
                /\ HoldsExactly(res.new, Within(posRange))

\* the first and the third of three positions were selected, with their data
C11_Selected ==
    /\ call.op = "subset" /\ call.exc = "none"
    /\ call.kwargs = [closest |-> PyBool(FALSE)]
    /\ positions.rows = <<P0, P1, P0>>
    /\ other.positions.rows = <<P0, P0>>
    /\ "a" \in DOMAIN data /\ data["a"].frames = <<F1, F0, F1>>
    /\ other.data["a"].frames = <<F1, F1>>

\* four times the squared distance of position i to the centre of posRange
FromCentre(i, posRange) ==
    LET off(d) == 2 * positions.rows[i][d] - (posRange[1][d] + posRange[2][d])
    IN  off(1) * off(1) + off(2) * off(2)

\* C12: on a Scan with at least one position, subset(posRange, closest=True)
\* on a range that holds no position returns exactly one position, the one
\* nearest to the centre of the range (the lowest index among equally near
\* ones) with its data; on a range that holds a position it returns what
\* closest=False returns.
C12_ClosestWhenEmpty ==
    \A posRange \in Ranges :
        LET res == SubsetResult(posRange, TRUE)
            all == 1..Len(positions.rows)
            nearest == {i \in all :
                          /\ \A j \in all :
                                FromCentre(i, posRange) <= FromCentre(j, posRange)
                          /\ \A j \in 1..(i - 1) :
                                FromCentre(j, posRange) > FromCentre(i, posRange)}
        IN  (~positions.none /\ positions.rows # <<>>) =>
                IF Within(posRange) = {}
                    THEN /\ res.exc = "none"
                         /\ Cardinality(nearest) = 1
                         /\ HoldsExactly(res.new, nearest)
                    ELSE res = SubsetResult(posRange, FALSE)

\* no position lies in the range and two are equally near to its centre: the
\* first of them was returned with its frame
C12_FirstOfTwoNearest ==
    /\ call.op = "subset" /\ call.exc = "none"
    /\ call.kwargs = [closest |-> PyBool(TRUE)]
    /\ positions.rows = <<P0, P1>>
    /\ "a" \in DOMAIN data /\ data["a"].frames = <<F1, F0>>
    /\ other.positions.rows = <<P0>>
    /\ other.data["a"].frames = <<F1>>

\* the matrices have the same number of rows and of columns, at least one
SameShape2D(x, y, z) ==
    /\ Len(x) >= 1 /\ Len(y) = Len(x) /\ Len(z) = Len(x)
    /\ Len(x[1]) >= 1
    /\ \A i \in 1..Len(x) :
          Len(x[i]) = Len(x[1]) /\ Len(y[i]) = Len(x[1]) /\ Len(z[i]) = Len(x[1])

\* x varies along the columns only and y along the rows only, each by a
\* constant step
RegularGrid(x, y) ==
    /\ \A i \in 1..Len(x) : x[i] = x[1]
    /\ \A i \in 1..Len(y) : \A j \in 1..Len(y[i]) : y[i][j] = y[i][1]
    /\ \A j \in 2..(Len(x[1]) - 1) :
          RatSub(x[1][j + 1], x[1][j]) = RatSub(x[1][j], x[1][j - 1])
    /\ \A i \in 2..(Len(y) - 1) :
          RatSub(y[i + 1][1], y[i][1]) = RatSub(y[i][1], y[i - 1][1])

\* z[i][j] is the value of a scan position nearest to (x[i][j], y[i][j])
NearestValues(x, y, z, values) ==
    \A i \in 1..Len(z) : \A j \in 1..Len(z[i]) :
        \E p \in 1..nPositions :
            /\ z[i][j] = values[p]
            /\ \A q \in 1..nPositions :
                  Dist2To(x[i][j], y[i][j], positions.rows[p])
                      <= Dist2To(x[i][j], y[i][j], positions.rows[q])

\* the scan's positions are not all the same
Extended == \E i, j \in 1..nPositions : positions.rows[i] # positions.rows[j]

\* what C13 says of a call on the present Scan
MapAsClaimed(name, res) ==
    IF positions.none
        THEN res.exc = "AssertionError"
        ELSE /\ res.exc = "none"
             /\ SameShape2D(res.ret[1], res.ret[2], res.ret[3])
             /\ RegularGrid(res.ret[1], res.ret[2])
             /\ NearestValues(res.ret[1], res.ret[2], res.ret[3],
                              IF name \in DOMAIN data THEN data[name].frames
                              ELSE [i \in 1..nPositions |-> <<R(0)>>])

\* C13: interpolatedMap with method 'nearest' on a scan of 2-dimensional
\* positions returns x, y, z of one 2-D shape, x and y a regular rectangular
\* grid and every z[i][j] the value of a scan position nearest to
\* (x[i][j], y[i][j]); it fails an assertion when nDimensions is not 2.
C13_NearestOnRegularGrid ==
    call.op = "interpolatedMap" => MapAsClaimed(call.name, call)

\* the same for the scans whose positions are not all the same
C13_NearestWhenExtended ==
    (call.op = "interpolatedMap" /\ (positions.none \/ Extended))
        => MapAsClaimed(call.name, call)

\* a map of the 2 x 2 grid was returned
C13_Mapped ==
    /\ call.op = "interpolatedMap" /\ call.exc = "none"
    /\ nPositions = 4

\* C15: _calcChunkSize(shape, dsize) returns None exactly when shape is
\* empty or dsize times the product of shape is at most 2^22 bytes, and a
\* chunk shape otherwise.
C15_NoneExactlyWhenFits ==
    call.op = "_calcChunkSize" =>
        (call.ret.none <=>
            \/ call.kwargs.shape = <<>>
            \/ call.kwargs.dsize * Product(call.kwargs.shape) <= 4194304)

\* four items of 1 MiB are exactly 4 MiB: no chunking
C15_ExactlyAtLimit ==
    /\ call.op = "_calcChunkSize"
    /\ call.kwargs = [shape |-> <<2, 2>>, dsize |-> 1048576]
    /\ call.ret.none

\* C16: a chunk shape returned has as many dimensions as shape, every chunk
\* dimension is at least 1 and at most that of shape, and the chunk holds at
\* most 2^22 bytes.
C16_ChunkWithinLimit ==
    (call.op = "_calcChunkSize" /\ ~call.ret.none) =>
        /\ Len(call.ret.chunk) = Len(call.kwargs.shape)
        /\ \A i \in 1..Len(call.ret.chunk) :
              1 <= call.ret.chunk[i] /\ call.ret.chunk[i] <= call.kwargs.shape[i]
        /\ call.kwargs.dsize * Product(call.ret.chunk) <= 4194304

\* an array of 4 x 4 x 4 items of 1 MiB is cut into chunks of one line
C16_LineChunks ==
    /\ call.op = "_calcChunkSize"
    /\ call.kwargs = [shape |-> <<4, 4, 4>>, dsize |-> 1048576]
    /\ call.ret = Chunk(<<1, 1, 4>>)

\* what C17 says of a call on the positions of a raster scan
ShapeAsClaimed ==
    /\ call.exc = "none"
    /\ call.ret.shape = <<call.kwargs.lines, call.kwargs.points>>
    /\ call.ret.label = call.kwargs.fast

\* C17: for the positions of a complete raster scan of L >= 1 lines of
\* P >= 2 points _shapeFromPositions2D returns the shape (L, P) and the
\* label of the fast axis.
C17_ShapeOfRaster ==
    call.op = "_shapeFromPositions2D" => ShapeAsClaimed

\* the same for the rasters of at least two lines of at least three points
C17_ShapeOfLongLines ==
    (/\ call.op = "_shapeFromPositions2D"
     /\ call.kwargs.lines >= 2 /\ call.kwargs.points >= 3) => ShapeAsClaimed

\* the shape of two lines of three points was returned
C17_TwoByThree ==
    /\ call.op = "_shapeFromPositions2D" /\ call.exc = "none"
    /\ call.kwargs.x = <<0, 1, 2, 0, 1, 2>> /\ call.kwargs.y = <<0, 0, 0, 1, 1, 1>>
    /\ call.ret = [shape |-> <<2, 3>>, label |-> "x"]

\* C14: export never overwrites a file: when a file exists at filepath the
\* call fails and the file's contents are unchanged; and export fails an
\* assertion, before any file is created, for a method other than 'reshape',
\* 'resample', 'none' and for a scan whose nDimensions is not 1 or 2.
C14_ExportNeverOverwrites ==
    [][call'.op = "export" =>
        /\ \A f \in DOMAIN files : f \in DOMAIN files' /\ files'[f] = files[f]
        /\ call'.name \in DOMAIN files => call'.exc # "none"
        /\ (\/ call'.kwargs.method.s \notin {"reshape", "resample", "none"}
            \/ positions.none) =>
                /\ call'.exc = "AssertionError"
                /\ files' = files]_vars

\* an export by a valid method of a Scan that holds data was refused as the
\* file exists, and the file written before is as it was
C14_Refused ==
    /\ call.op = "export" /\ call.exc = "OSError"
    /\ call.kwargs.method.s = "none"
    /\ nDatasets = 1
    /\ call.name \in DOMAIN files
    /\ files[call.name].complete /\ files[call.name].method = "reshape"

\* the call is not refused for its name or for its positions
Loads(name, kwargs, file) ==
    LET at == PrepareData(default_opts, attrs, kwargs, TRUE).attrs
        motors == ReadMotors(at, file)
    IN  nDatasets # 0 =>
            /\ ResolvedName(name) \notin DOMAIN data
            /\ motors.exc = "none" =>
                  PositionsConsistent(positions, ReadPositions(at, motors.rows))

\* a dataset that the load of kwargs needs is missing from the file: one of
\* the frames of the positions to load, the counter, q or I
DataMissing(kwargs, file, res) ==
    LET at == res.attrs
        n == IF at.nMaxPositions.i # 0 /\ at.nMaxPositions.i < Len(res.positions.rows)
                 THEN at.nMaxPositions.i ELSE Len(res.positions.rows)
    IN  \/ at.dataSource.s = "merlin" /\ Len(file.frames) < n
        \/ at.dataSource.s = "counter1" /\ file.counter.missing
        \/ at.dataSource.s = "waxs" /\ file.waxs.opens
           /\ (file.waxs.q.missing \/ file.waxs.I.missing)

MotorMissing(file) == file.x.missing \/ file.y.missing

IsPixelAverage(v, frame, pix) ==
    LET sum == SumOver(frame, pix)
    IN  v[1] * Cardinality(pix) * sum[2] = sum[1] * v[2]

\* what C19 says of updateMap: one value per position, the average of its
\* frame over the pixels the image mask selects, over all when it selects none
MapValuesAsClaimed ==
    LET frames == data["2d"].frames
        mask == call.kwargs.mask
    IN  /\ Len(call.ret.average) = nPositions
        /\ \A i \in 1..nPositions :
              IsPixelAverage(call.ret.average[i], frames[i],
                             IF mask.none \/ mask.selected = {}
                                 THEN Pixels(frames[i]) ELSE mask.selected)

\* v is the mean of the rationals of seq
IsMeanOf(v, seq) ==
    LET sum == RatSum(seq)
    IN  v[1] * Len(seq) * sum[2] = sum[1] * v[2]

\* what C19 says of updateImage: the average frame over all positions in
\* 'roi' mode with no or an empty map mask, the frame of the index in 'ind'
ImageAsClaimed ==
    LET frames == data["2d"].frames
        mask == call.kwargs.mask
        index == CHOOSE i \in call.kwargs.index.selected : TRUE
    IN  /\ (call.name = "roi" /\ (mask.none \/ mask.selected = {})) =>
              /\ call.ret.shown
              /\ \A p \in Pixels(frames[1]) :
                    IsMeanOf(call.ret.image[p[1]][p[2]],
                             [k \in 1..Len(frames) |-> frames[k][p[1]][p[2]]])
        /\ call.name = "ind" =>
              call.ret.shown /\ call.ret.image = frames[index + 1]

\* the image mask of the call selects pixels of the frames only
MaskOfFrames ==
    \A i \in 1..nPositions :
        call.kwargs.mask.selected \subseteq Pixels(data["2d"].frames[i])

\* C19 as claimed, for a scan with the dataset '2d', and an image mask that is a
\* mask of its frames
C19_MaskedAverages ==
    /\ (call.op = "updateMap" /\ "2d" \in DOMAIN data /\ MaskOfFrames)
          => MapValuesAsClaimed
    /\ (call.op = "updateImage" /\ "2d" \in DOMAIN data) => ImageAsClaimed

\* C19 as amended: updateImage shows nothing new when the frames are of
\* one pixel, and is as claimed for all other frames
C19_MaskedAveragesOfImages ==
    /\ (call.op = "updateMap" /\ "2d" \in DOMAIN data /\ MaskOfFrames)
          => MapValuesAsClaimed
    /\ (call.op = "updateImage" /\ "2d" \in DOMAIN data) =>
          IF Pixels(data["2d"].frames[1]) = {<<1, 1>>}
              THEN ~call.ret.shown
              ELSE ImageAsClaimed

\* the map of the averages over the two pixels of the lower row was built
C19_RowAveraged ==
    /\ call.op = "updateMap" /\ call.exc = "none"
    /\ call.kwargs.mask = Mask({<<2, 1>>, <<2, 2>>})
    /\ nPositions = 2
    /\ call.ret.average = <<R(3), R(1)>>

====
